---- MODULE Spec2Model ----
(***************************************************************************)
(* The voting API backend of pyjamafish/suelections: the BranchCtx         *)
(* middleware, the CandidateRequest validator and the request handlers of  *)
(* AppResource, acting on the two branch collections of the document       *)
(* store.                                                                  *)
(***************************************************************************)
EXTENDS Integers, Sequences, FiniteSets, Bags, TLC

\* Program constants.
AnswerMaxLength == 280
questionCount == 4
StatusOK == 200
StatusCreated == 201
ObjectIDHexLen == 24
ObjectIDLen == 12

\* Bounds of the model.
\* MaxWrites bounds the store writes of a run (documents inserted plus votes
\* counted or waiting to be).  MaxDocs and MaxDocsApi bound the documents of
\* one collection, in Spec and SpecPost and in SpecApi: GetAnswers renders one
\* of n!^4 responses on n documents, which SpecApi multiplies by the
\* interleavings of concurrent votes.
MaxWrites == 3
MaxDocs == 2
MaxDocsApi == 1

\* db: the documents of each branch collection, in insertion order.
\* pending: the PatchVotes requests waiting on their store call.
\* acked: per identifier, the success envelopes rendered for PatchVotes
\*        requests whose update matched a document.
\* last: what the request that finished last did.
VARIABLES db, pending, acked, last

vars == <<db, pending, acked, last>>

(***************************************************************************)
(* Values                                                                  *)
(***************************************************************************)

RECURSIVE Rep(_, _)
Rep(c, n) ==
    IF n = 0 THEN ""
    ELSE IF n % 2 = 0 THEN LET half == Rep(c, n \div 2) IN half \o half
                      ELSE c \o Rep(c, n - 1)

\* A Go []string: nil is distinct from the empty slice.
NilSlice == [isNil |-> TRUE, elems |-> <<>>]
Slice(s) == [isNil |-> FALSE, elems |-> s]

Success == "success"
Fail == "fail"
Error == "error"

ErrMissingName == "missing name"
ErrMissingAnswers == "missing answers"
ErrAnswersTooLong == "one or more answers are too long"
ErrDecode == "decode error"
NoErr == "nil"

NewResponseSuccess(data) == [Status |-> Success, Data |-> data]
NewResponseFail(data) == [Status |-> Fail, Data |-> data]
NewErrorResponse(message) == [Status |-> Error, Message |-> message]

\* The JSON null payload of NewResponseSuccess(nil).
Null == [null |-> TRUE]

(***************************************************************************)
(* Store identifiers                                                       *)
(***************************************************************************)

LowerHex == <<"0", "1", "2", "3", "4", "5", "6", "7", "8", "9",
              "a", "b", "c", "d", "e", "f">>
UpperHex == <<"0", "1", "2", "3", "4", "5", "6", "7", "8", "9",
              "A", "B", "C", "D", "E", "F">>

IsHexChar(c) == \E k \in 1..16 : LowerHex[k] = c \/ UpperHex[k] = c
HexVal(c) == IF IsHexChar(c)
             THEN (CHOOSE k \in 1..16 : LowerHex[k] = c \/ UpperHex[k] = c) - 1
             ELSE 0

NilObjectID == [i \in 1..ObjectIDLen |-> 0]

\* An identifier that decodes only by length: non-hex digits read as zero.
ObjectIDFromHexAnyChars(s) ==
    IF Len(s) # ObjectIDHexLen
    THEN [ok |-> FALSE, id |-> NilObjectID]
    ELSE [ok |-> TRUE,
          id |-> [i \in 1..ObjectIDLen |-> 16 * HexVal(s[2 * i - 1]) + HexVal(s[2 * i])]]

\* primitive.ObjectIDFromHex: 24 hex digits of either case give 12 bytes.
ObjectIDFromHex(s) ==
    IF Len(s) # ObjectIDHexLen \/ \E i \in 1..Len(s) : ~IsHexChar(s[i])
    THEN [ok |-> FALSE, id |-> NilObjectID]
    ELSE [ok |-> TRUE,
          id |-> [i \in 1..ObjectIDLen |-> 16 * HexVal(s[2 * i - 1]) + HexVal(s[2 * i])]]

\* ObjectID.Hex, the form in which a client reads an _id.
Hex(id) == [i \in 1..ObjectIDHexLen |->
              IF i % 2 = 1 THEN LowerHex[(id[(i + 1) \div 2] \div 16) + 1]
                           ELSE LowerHex[(id[i \div 2] % 16) + 1]]

ToUpper(s) == [i \in 1..Len(s) |-> UpperHex[HexVal(s[i]) + 1]]

\* The identifier the driver generates for the n-th inserted document.
NewObjectID(n) == <<101, 62, 175, 16, 171, 205, 239, 1, 35, 0, 0, n>>

(***************************************************************************)
(* Requests                                                                *)
(***************************************************************************)

ValidBranches == {"senate", "treasury"}
BranchParams == ValidBranches \cup {"Senate"}

AtLimit == Rep("x", AnswerMaxLength)
OverLimit == Rep("x", AnswerMaxLength + 1)
FourAnswers == <<"a", "b", "c", "d">>

\* The CandidateRequest as render.Decode leaves it, and whether decoding
\* returned an error.  A body with a mistyped field fails to decode and
\* still fills the fields it could read.
Body(ok, name, answers) == [decodeOk |-> ok, Name |-> name, Answers |-> answers]

ValidBody == Body(TRUE, "Alice", Slice(FourAnswers))

DecodedBodies ==
    { ValidBody,
      Body(TRUE, "Alice", Slice(<<>>)),
      Body(TRUE, "Alice", Slice(<<"a", "b", "c", AtLimit>>)),
      Body(TRUE, "Alice", NilSlice),
      Body(TRUE, "Alice", Slice(<<"a", OverLimit, "c", "d">>)),
      Body(TRUE, "", Slice(FourAnswers)),
      Body(TRUE, "", NilSlice),
      Body(TRUE, "", Slice(<<OverLimit, "b", "c", "d">>)) }

UndecodedBodies == {Body(FALSE, "", NilSlice)}

Bodies == DecodedBodies \cup UndecodedBodies

\* The bodies of the requests that exercise the handlers other than
\* PostCandidates: one candidate that passes and one that is rejected.
FewBodies == {ValidBody, Body(TRUE, "", NilSlice)}

\* The bodies of the requests that fill the collections the read handlers
\* are exercised on: a candidate with four answers, one with two, and a
\* rejected one.
SomeBodies == FewBodies \cup {Body(TRUE, "Bob", Slice(<<"a", "b">>))}

\* The identifiers clients vote for: those of the first two documents.
IdSpace == {NewObjectID(1), NewObjectID(2)}

WellFormedIdParams == {Hex(id) : id \in IdSpace} \cup {ToUpper(Hex(NewObjectID(1)))}
MalformedIdParams ==
    { SubSeq(Hex(NewObjectID(1)), 1, ObjectIDHexLen - 1),
      [Hex(NewObjectID(1)) EXCEPT ![1] = "g"] }
IdParams == WellFormedIdParams \cup MalformedIdParams

\* What the store does to a read: nothing, Find returns an error, the at-th
\* cur.Next returns false with cur.Err set, or the at-th cur.Decode fails.
NoFault == [kind |-> "none", at |-> 0]
Faults(n) ==
    {NoFault, [kind |-> "find", at |-> 0]}
        \cup {[kind |-> "cursor", at |-> k] : k \in 1..(n + 1)}
        \cup {[kind |-> "decode", at |-> k] : k \in 1..n}

\* The faults of kinds among kinds, for a collection of n documents.
FaultsOf(kinds, n) == {f \in Faults(n) : f.kind \in kinds}
AllFaultKinds == {"none", "find", "cursor", "decode"}
NoFaultKinds == {"none"}

RECURSIVE Factorial(_)
Factorial(n) == IF n <= 1 THEN 1 ELSE n * Factorial(n - 1)

\* The seeds that matter to a shuffle of n elements.  rand.Shuffle draws
\* Intn(i+1) for i from n-1 down to 1, so the clock's seed decides one of n!
\* sequences of draws, each giving a different order; a seed here is the code
\* of one such sequence.
SeedsFor(n) == 0..(Factorial(n) - 1)

(***************************************************************************)
(* State                                                                   *)
(***************************************************************************)

NoInput == [none |-> TRUE]
NoCtx == "(unset)"
NoBody == [none |-> TRUE]

\* What a finished request did: next is how often BranchCtx called the
\* wrapped handler, ctx the branch value it put in the context, storeOps the
\* store operations performed, rendered the envelopes rendered.
Outcome(op, branch, input, next, ctx, storeOps, rendered, code, body) ==
    [op |-> op, branch |-> branch, input |-> input, next |-> next, ctx |-> ctx,
     storeOps |-> storeOps, rendered |-> rendered, code |-> code, body |-> body]

Init ==
    /\ db = [b \in ValidBranches |-> <<>>]
    /\ pending = EmptyBag
    /\ acked = [id \in IdSpace |-> 0]
    /\ last = Outcome("none", NoCtx, NoInput, 0, NoCtx, 0, 0, 0, NoBody)

RECURSIVE SumVotes(_)
SumVotes(coll) == IF Len(coll) = 0 THEN 0 ELSE Head(coll).votes + SumVotes(Tail(coll))

TotalDocs == Len(db["senate"]) + Len(db["treasury"])
TotalVotes == SumVotes(db["senate"]) + SumVotes(db["treasury"])

Bump(f, k) == IF k \in DOMAIN f THEN [f EXCEPT ![k] = @ + 1] ELSE f

(***************************************************************************)
(* BranchCtx                                                               *)
(***************************************************************************)

InvalidBranchMessage(branch) ==
    "Invalid branch \"" \o branch \o "\"; must be either \"senate\" or \"treasury\""

SenateOnly(branch) == branch = "senate"

\* The branches BranchCtx lets through.
BranchAllowed(branch) == ~(branch # "senate" /\ branch # "treasury")

\* The middleware's own response: the wrapped handler is not called.
BranchRejected(op, branch) ==
    /\ last' = Outcome(op, branch, NoInput, 0, NoCtx, 0, 1, StatusOK,
                       NewResponseFail([message |-> InvalidBranchMessage(branch)]))
    /\ UNCHANGED <<db, pending, acked>>

\* A handler called by BranchCtx with the branch in its context.
Handled(op, branch, input, storeOps, rendered, code, body) ==
    Outcome(op, branch, input, 1, branch, storeOps, rendered, code, body)

(***************************************************************************)
(* Documents and their decoded forms                                       *)
(***************************************************************************)

\* The document PostCandidates inserts; the driver adds the _id.
NewDocument(id, data) ==
    [_id |-> id, name |-> data.Name, answers |-> data.Answers, votes |-> 0]

\* cur.Decode into a Candidate.
DecodeCandidate(doc) ==
    [Id |-> doc._id, Name |-> doc.name, Votes |-> doc.votes, Answers |-> doc.answers]

\* cur.Decode into a LeaderboardEntry.
DecodeLeaderboardEntry(doc) ==
    [Id |-> doc._id, Name |-> doc.name, Votes |-> doc.votes]

\* The Answer GetAnswers builds for question i (counted from 1 here, from 0
\* in the source).
AnswerOf(candidate, i) ==
    [Id |-> candidate.Id, Name |-> candidate.Name, Votes |-> candidate.Votes,
     Answer |-> candidate.Answers.elems[i]]

MapSeq(Op(_), s) == IF Len(s) = 0 THEN <<>> ELSE [i \in 1..Len(s) |-> Op(s[i])]

Swap(x, i, j) == [x EXCEPT ![i] = x[j], ![j] = x[i]]

\* rand.Shuffle: for i from the last index down to the second, swap x[i] with
\* x[j], j drawn from the first i positions.  The draws are read off seed.
RECURSIVE Shuffle(_, _, _)
Shuffle(x, i, seed) ==
    IF i <= 1 THEN x
    ELSE Shuffle(Swap(x, i, (seed % i) + 1), i - 1, seed \div i)

\* randomize: a shuffle under a seed taken from the clock at the call.
randomize(x, seed) == Shuffle(x, Len(x), seed)

(***************************************************************************)
(* CandidateRequest.Bind and render.Bind                                   *)
(***************************************************************************)

\* A validator that looks at the answers before the name.
BindAnswersFirst(request) ==
    IF request.Answers.isNil THEN ErrMissingAnswers
    ELSE IF \E i \in 1..Len(request.Answers.elems) :
                Len(request.Answers.elems[i]) > AnswerMaxLength
         THEN ErrAnswersTooLong
         ELSE IF request.Name = "" THEN ErrMissingName ELSE NoErr

Bind(request) ==
    IF request.Name = "" THEN ErrMissingName
    ELSE IF request.Answers.isNil THEN ErrMissingAnswers
         ELSE IF \E i \in 1..Len(request.Answers.elems) :
                     Len(request.Answers.elems[i]) > AnswerMaxLength
              THEN ErrAnswersTooLong
              ELSE NoErr

\* render.Bind: decode the body, and only then call Bind on the result.
RenderBind(body) ==
    IF ~body.decodeOk THEN ErrDecode
    ELSE Bind([Name |-> body.Name, Answers |-> body.Answers])

(***************************************************************************)
(* Reads of a collection                                                   *)
(***************************************************************************)

\* The documents the cursor loop gets through before it stops.
DocsRead(coll, fault) ==
    IF fault.kind = "none" THEN coll ELSE SubSeq(coll, 1, fault.at - 1)

\* The orders in which Find may return coll sorted by votes, descending; the
\* store decides between documents with equal votes.
SortedByVotes(coll) ==
    LET n == Len(coll)
        perms == {p \in [1..n -> 1..n] : \A i, j \in 1..n : i # j => p[i] # p[j]}
    IN IF n = 0 THEN {<<>>}
       ELSE {[i \in 1..n |-> coll[p[i]]] : p \in
               {q \in perms : \A i, j \in 1..n :
                                 i < j => coll[q[i]].votes >= coll[q[j]].votes}}

(***************************************************************************)
(* GetCandidates                                                           *)
(***************************************************************************)

GetCandidatesBody(coll, fault, seed) ==
    IF fault.kind = "find" THEN NewErrorResponse("Could not get cursor from db")
    ELSE IF fault.kind = "decode"
         THEN NewErrorResponse("Could not decode into candidate")
         ELSE NewResponseSuccess(
                [candidates |->
                    randomize(MapSeq(DecodeCandidate, DocsRead(coll, fault)), seed)])

GetCandidates(branch, fault, seed) ==
    /\ last' = Handled("GetCandidates", branch, [fault |-> fault], 1, 1, StatusOK,
                       GetCandidatesBody(db[branch], fault, seed))
    /\ UNCHANGED <<db, pending, acked>>

GetCandidatesRequest(kinds) ==
    \E branch \in BranchParams :
        IF BranchAllowed(branch)
        THEN \E fault \in FaultsOf(kinds, Len(db[branch])) :
                \E seed \in (IF fault.kind \in {"find", "decode"} THEN {0}
                             ELSE SeedsFor(Len(DocsRead(db[branch], fault)))) :
                    GetCandidates(branch, fault, seed)
        ELSE BranchRejected("GetCandidates", branch)

(***************************************************************************)
(* PostCandidates                                                          *)
(***************************************************************************)

InsertOne(coll, id, data) == Append(coll, NewDocument(id, data))

PostCandidates(branch, body, storeFails, maxDocs) ==
    LET err == RenderBind(body) IN
    IF err = ErrMissingName
    THEN /\ last' = Handled("PostCandidates", branch, body, 0, 1, StatusOK,
                            NewResponseFail([name |-> err]))
         /\ UNCHANGED <<db, pending, acked>>
    ELSE IF err = ErrMissingAnswers \/ err = ErrAnswersTooLong
    THEN /\ last' = Handled("PostCandidates", branch, body, 0, 1, StatusOK,
                            NewResponseFail([answers |-> err]))
         /\ UNCHANGED <<db, pending, acked>>
    ELSE /\ Len(db[branch]) < maxDocs
         /\ TotalDocs + TotalVotes + BagCardinality(pending) < MaxWrites
         /\ IF storeFails
            THEN /\ last' = Handled("PostCandidates", branch, body, 1, 1, StatusOK,
                        NewErrorResponse(
                          "There was an error adding the candidate to the database."))
                 /\ UNCHANGED db
            ELSE /\ db' = [db EXCEPT ![branch] =
                              InsertOne(@, NewObjectID(TotalDocs + 1), body)]
                 /\ last' = Handled("PostCandidates", branch, body, 1, 1,
                                    StatusCreated, NewResponseSuccess(Null))
         /\ UNCHANGED <<pending, acked>>

PostCandidatesRequest(bodies, maxDocs) ==
    \E branch \in BranchParams :
        IF BranchAllowed(branch)
        THEN \E body \in bodies, storeFails \in BOOLEAN :
                PostCandidates(branch, body, storeFails, maxDocs)
        ELSE BranchRejected("PostCandidates", branch)

(***************************************************************************)
(* PatchVotes                                                              *)
(***************************************************************************)

\* An update that sets the counter instead of incrementing it.
SetVotesToOne(doc) == [doc EXCEPT !.votes = 1]

\* {"$inc": {"votes": 1}}
IncVotes(doc) == [doc EXCEPT !.votes = @ + 1]

\* An update whose filter matches every document.
UpdateEvery(coll, id) == MapSeq(IncVotes, coll)

\* UpdateOne with the filter {"_id": id}: the first match, if any, is updated
\* in one store step.
UpdateOne(coll, id) ==
    IF \E i \in 1..Len(coll) : coll[i]._id = id
    THEN LET m == CHOOSE i \in 1..Len(coll) :
                    /\ coll[i]._id = id
                    /\ \A j \in 1..(i - 1) : coll[j]._id # id
         IN [coll EXCEPT ![m] = IncVotes(coll[m])]
    ELSE coll

\* The handler up to its store call: the id is parsed, the branch is read
\* from the context, and the request waits on UpdateOne.
PatchVotesBegin(branch, idParam) ==
    LET parsed == ObjectIDFromHex(idParam) IN
    IF ~parsed.ok
    THEN /\ last' = Handled("PatchVotes", branch, [idParam |-> idParam], 0, 1,
                            StatusOK, NewErrorResponse("Could not get ObjectID"))
         /\ UNCHANGED <<db, pending, acked>>
    ELSE /\ TotalDocs + TotalVotes + BagCardinality(pending) < MaxWrites
         /\ pending' = pending (+) SetToBag({[branch |-> branch, id |-> parsed.id]})
         /\ UNCHANGED <<db, acked, last>>

PatchVotesRequest ==
    \E branch \in BranchParams :
        IF BranchAllowed(branch)
        THEN \E idParam \in IdParams : PatchVotesBegin(branch, idParam)
        ELSE BranchRejected("PatchVotes", branch)

\* The store call of a waiting request and the response after it.
PatchVotesUpdate ==
    \E p \in BagToSet(pending), storeFails \in BOOLEAN :
        LET matched == \E i \in 1..Len(db[p.branch]) : db[p.branch][i]._id = p.id
        IN /\ pending' = pending (-) SetToBag({p})
           /\ IF storeFails
              THEN /\ last' = Handled("PatchVotes", p.branch, [id |-> p.id],
                                      1, 1, StatusOK,
                                      NewErrorResponse("Could not increment votes"))
                   /\ UNCHANGED <<db, acked>>
              ELSE /\ db' = [db EXCEPT ![p.branch] = UpdateOne(@, p.id)]
                   /\ last' = Handled("PatchVotes", p.branch, [id |-> p.id],
                                      1, 1, StatusOK, NewResponseSuccess(Null))
                   /\ acked' = IF matched THEN Bump(acked, p.id) ELSE acked

(***************************************************************************)
(* GetAnswers                                                              *)
(***************************************************************************)

\* candidate.Answers[i] for every i below questionCount is in range.
IndexesInRange(doc) == Len(doc.answers.elems) >= questionCount

\* What GetAnswers renders.  Each document read is decoded and then indexed
\* at 0..questionCount-1; an index out of range is a run-time panic, after
\* which nothing is rendered.
GetAnswersResult(coll, fault, seeds) ==
    LET read == DocsRead(coll, fault) IN
    IF fault.kind = "find"
    THEN [rendered |-> 1, code |-> StatusOK,
          body |-> NewErrorResponse("Could not get cursor from db")]
    ELSE IF \E k \in 1..Len(read) : ~IndexesInRange(read[k])
    THEN [rendered |-> 0, code |-> 0, body |-> NoBody]
    ELSE IF fault.kind = "decode"
    THEN [rendered |-> 1, code |-> StatusOK,
          body |-> NewErrorResponse("Could not decode into candidate")]
    ELSE [rendered |-> 1, code |-> StatusOK,
          body |-> NewResponseSuccess(
             [answers |->
                [i \in 1..questionCount |->
                    randomize(MapSeq(LAMBDA d : AnswerOf(DecodeCandidate(d), i), read),
                              seeds[i])]])]

GetAnswers(branch, fault, seeds) ==
    LET r == GetAnswersResult(db[branch], fault, seeds) IN
    /\ last' = Handled("GetAnswers", branch, [fault |-> fault], 1, r.rendered,
                       r.code, r.body)
    /\ UNCHANGED <<db, pending, acked>>

GetAnswersRequest(kinds) ==
    \E branch \in BranchParams :
        IF BranchAllowed(branch)
        THEN \E fault \in FaultsOf(kinds, Len(db[branch])) :
                \E seeds \in (IF fault.kind \in {"find", "decode"}
                               THEN {[i \in 1..questionCount |-> 0]}
                               ELSE [1..questionCount ->
                                        SeedsFor(Len(DocsRead(db[branch], fault)))]) :
                    GetAnswers(branch, fault, seeds)
        ELSE BranchRejected("GetAnswers", branch)

(***************************************************************************)
(* GetLeaderboard                                                          *)
(***************************************************************************)

GetLeaderboardBody(sorted, fault) ==
    IF fault.kind = "find" THEN NewErrorResponse("Could not get cursor from db")
    ELSE IF fault.kind = "decode"
         THEN NewErrorResponse("Could not decode into leaderboard entry")
         ELSE NewResponseSuccess(
                [leaderboard |-> MapSeq(DecodeLeaderboardEntry, DocsRead(sorted, fault))])

GetLeaderboard(branch, sorted, fault) ==
    /\ last' = Handled("GetLeaderboard", branch, [fault |-> fault], 1, 1, StatusOK,
                       GetLeaderboardBody(sorted, fault))
    /\ UNCHANGED <<db, pending, acked>>

GetLeaderboardRequest(kinds) ==
    \E branch \in BranchParams :
        IF BranchAllowed(branch)
        THEN \E sorted \in SortedByVotes(db[branch]),
                fault \in FaultsOf(kinds, Len(db[branch])) :
                GetLeaderboard(branch, sorted, fault)
        ELSE BranchRejected("GetLeaderboard", branch)

(***************************************************************************)
(* GetQuestions                                                            *)
(***************************************************************************)

GetQuestions(branch) ==
    /\ last' = Handled("GetQuestions", branch, NoInput, 0, 1, StatusOK,
                       NewErrorResponse("Not implemented"))
    /\ UNCHANGED <<db, pending, acked>>

GetQuestionsRequest ==
    \E branch \in BranchParams :
        IF BranchAllowed(branch)
        THEN GetQuestions(branch)
        ELSE BranchRejected("GetQuestions", branch)

(***************************************************************************)
(* Specification                                                           *)
(***************************************************************************)

\* Every handler and every store fault.
Next ==
    \/ GetCandidatesRequest(AllFaultKinds)
    \/ PostCandidatesRequest(SomeBodies, MaxDocs)
    \/ PatchVotesRequest
    \/ PatchVotesUpdate
    \/ GetAnswersRequest(AllFaultKinds)
    \/ GetLeaderboardRequest(AllFaultKinds)
    \/ GetQuestionsRequest

Spec == Init /\ [][Next]_vars

\* Every handler, with a store whose reads do not fail and clients that send
\* few kinds of bodies.
NextApi ==
    \/ GetCandidatesRequest(NoFaultKinds)
    \/ PostCandidatesRequest(FewBodies, MaxDocsApi)
    \/ PatchVotesRequest
    \/ PatchVotesUpdate
    \/ GetAnswersRequest(NoFaultKinds)
    \/ GetLeaderboardRequest(NoFaultKinds)
    \/ GetQuestionsRequest

SpecApi == Init /\ [][NextApi]_vars

\* Clients that only submit candidates, with every kind of body.
NextPost == PostCandidatesRequest(Bodies, MaxDocs)

SpecPost == Init /\ [][NextPost]_vars

(***************************************************************************)
(* Properties                                                              *)
(***************************************************************************)

\* The status of the envelope a finished request rendered, if it rendered one.
StatusOf(o) == IF o.rendered = 0 THEN "(none)" ELSE o.body.Status

\* a is a reordering of b.
PermutationOf(a, b) ==
    /\ Len(a) = Len(b)
    /\ \/ Len(a) = 0
       \/ \E p \in [1..Len(a) -> 1..Len(a)] :
            /\ \A i, j \in 1..Len(a) : i # j => p[i] # p[j]
            /\ \A i \in 1..Len(a) : a[i] = b[p[i]]

ReadOps == {"GetCandidates", "GetAnswers", "GetLeaderboard"}

\* C1: a request whose branch parameter is neither "senate" nor "treasury"
\* gets a fail envelope naming the value from the middleware, with the
\* wrapped handler never called and no store operation; for "senate" and
\* "treasury" the handler is called exactly once with that branch in its
\* context, also while it waits on its store call.
C1_BranchCtx ==
    /\ last.op # "none" =>
         IF last.branch = "senate" \/ last.branch = "treasury"
         THEN last.next = 1 /\ last.ctx = last.branch
         ELSE /\ last.next = 0
              /\ last.storeOps = 0
              /\ last.rendered = 1
              /\ last.body = [Status |-> "fail",
                              Data |-> [message |-> InvalidBranchMessage(last.branch)]]
    /\ \A p \in BagToSet(pending) : p.branch = "senate" \/ p.branch = "treasury"

C1_Witness ==
    /\ last.op = "PostCandidates"
    /\ last.branch = "Senate"
    /\ last.next = 0
    /\ StatusOf(last) = "fail"

\* C2: validation of a decoded submission fails fast in the order name,
\* answers absent, answer too long: an empty name gives a fail envelope keyed
\* "name" whatever the answers; otherwise absent answers give one keyed
\* "answers"; otherwise an answer longer than 280 gives one keyed "answers";
\* any other submission, an empty answers list included, passes validation.
C2_ValidationOrder ==
    (last.op = "PostCandidates" /\ last.next = 1 /\ last.input.decodeOk) =>
        LET name == last.input.Name
            answers == last.input.Answers
        IN IF name = ""
           THEN last.body = [Status |-> "fail", Data |-> [name |-> "missing name"]]
           ELSE IF answers.isNil
           THEN last.body = [Status |-> "fail", Data |-> [answers |-> "missing answers"]]
           ELSE IF \E i \in 1..Len(answers.elems) : Len(answers.elems[i]) > 280
           THEN last.body = [Status |-> "fail",
                             Data |-> [answers |-> "one or more answers are too long"]]
           ELSE StatusOf(last) # "fail"

C2_Witness ==
    /\ last.op = "PostCandidates"
    /\ last.input = Body(TRUE, "", Slice(<<OverLimit, "b", "c", "d">>))
    /\ last.body = [Status |-> "fail", Data |-> [name |-> "missing name"]]

\* C3: a PostCandidates that succeeds answers 201 with a success envelope and
\* a null payload, having appended to its branch's collection, and to no
\* other, one document with the submitted name and answers and votes 0; and
\* every GetCandidates that renders a list renders a reordering of the
\* branch's stored candidates (so one that contains the created candidate).
C3_CreateThenList ==
    /\ (last.op = "PostCandidates" /\ StatusOf(last) = "success") =>
         /\ last.code = 201
         /\ last.body.Data = Null
         /\ Len(db[last.ctx]) >= 1
         /\ LET doc == db[last.ctx][Len(db[last.ctx])] IN
              /\ doc.name = last.input.Name
              /\ doc.answers = last.input.Answers
              /\ doc.votes = 0
              /\ \A b \in ValidBranches : \A i \in 1..Len(db[b]) :
                    db[b][i]._id = doc._id => (b = last.ctx /\ i = Len(db[b]))
    /\ (last.op = "GetCandidates" /\ StatusOf(last) = "success") =>
         PermutationOf(last.body.Data.candidates,
                       MapSeq(DecodeCandidate, db[last.ctx]))

\* C4: whatever the interleaving of the PatchVotes requests for a candidate,
\* its votes equal the number of those requests that were answered with a
\* success envelope: no increment is lost.
C4_NoLostIncrement ==
    \A b \in ValidBranches : \A i \in 1..Len(db[b]) :
        db[b][i]._id \in DOMAIN acked => db[b][i].votes = acked[db[b][i]._id]

\* Two votes counted for one candidate.
C4_Witness ==
    \E b \in ValidBranches : \E i \in 1..Len(db[b]) :
        /\ db[b][i].votes = 2
        /\ acked[db[b][i]._id] = 2

\* C5: in every step a collection keeps its documents, each with its
\* identifier, name and answers; votes never decrease, and change only in a
\* PatchVotes store step addressed to that document's identifier and branch,
\* and then by exactly one.
C5_VotesOnlyIncrement ==
    [][\A b \in ValidBranches :
          /\ Len(db'[b]) >= Len(db[b])
          /\ \A i \in 1..Len(db[b]) :
               /\ db'[b][i]._id = db[b][i]._id
               /\ db'[b][i].name = db[b][i].name
               /\ db'[b][i].answers = db[b][i].answers
               /\ db'[b][i].votes >= db[b][i].votes
               /\ db'[b][i].votes # db[b][i].votes =>
                    /\ db'[b][i].votes = db[b][i].votes + 1
                    /\ last'.op = "PatchVotes"
                    /\ last'.ctx = b
                    /\ last'.storeOps = 1
                    /\ last'.input = [id |-> db[b][i]._id]]_vars

\* A vote counted for one of two stored candidates, the other left at zero.
C5_Witness ==
    \E b, c \in ValidBranches :
        /\ Len(db[b]) >= 1
        /\ Len(db[c]) >= 1
        /\ TotalDocs = 2
        /\ db[b][1].votes = 1
        /\ db[c][Len(db[c])].votes = 0
        /\ last.op = "PatchVotes"

\* C6: every stored candidate has exactly questionCount answers.
C6_FourAnswers ==
    \A b \in ValidBranches : \A i \in 1..Len(db[b]) :
        /\ ~db[b][i].answers.isNil
        /\ Len(db[b][i].answers.elems) = 4

\* C7: when the store does not fail, GetAnswers renders a success envelope
\* with exactly 4 buckets, bucket i holding, in some order, one Answer per
\* stored candidate of the branch with its id, name, votes and i-th answer.
C7_AnswersGrouped ==
    (last.op = "GetAnswers" /\ last.next = 1 /\ last.input.fault.kind = "none") =>
        /\ StatusOf(last) = "success"
        /\ Len(last.body.Data.answers) = 4
        /\ \A i \in 1..4 :
              PermutationOf(last.body.Data.answers[i],
                            MapSeq(LAMBDA d : [Id |-> d._id, Name |-> d.name,
                                               Votes |-> d.votes,
                                               Answer |-> d.answers.elems[i]],
                                   db[last.ctx]))

\* C8: a PatchVotes whose id parameter is not an identifier is answered with
\* an error envelope before any store operation, never reaches the store
\* call, and changes no document.
C8_MalformedId ==
    /\ [](/\ (last.op = "PatchVotes" /\ last.next = 1
                /\ "idParam" \in DOMAIN last.input
                /\ last.input.idParam \in MalformedIdParams) =>
                   (StatusOf(last) = "error" /\ last.storeOps = 0)
          /\ \A p \in BagToSet(pending) : p.id \in IdSpace)
    /\ [][(/\ last'.op = "PatchVotes"
           /\ "idParam" \in DOMAIN last'.input
           /\ last'.input.idParam \in MalformedIdParams) => db' = db]_vars

C8_Witness ==
    /\ last.op = "PatchVotes"
    /\ last.next = 1
    /\ last.input = [idParam |-> [Hex(NewObjectID(1)) EXCEPT ![1] = "g"]]
    /\ StatusOf(last) = "error"
    /\ TotalDocs >= 1

\* C9: a read handler always renders exactly one envelope; it is an error
\* envelope whenever Find, the cursor iteration or a decode failed, so a
\* success envelope carries every document of the branch.
C9_ReadFaults ==
    (last.op \in ReadOps /\ last.next = 1) =>
        /\ last.rendered = 1
        /\ last.input.fault.kind # "none" => StatusOf(last) = "error"
        /\ StatusOf(last) = "success" =>
              Len(IF last.op = "GetCandidates" THEN last.body.Data.candidates
                  ELSE IF last.op = "GetLeaderboard" THEN last.body.Data.leaderboard
                  ELSE last.body.Data.answers[1]) = Len(db[last.ctx])

\* C10: PostCandidates performs no insert when binding returned an error of
\* any kind, so every stored candidate has a name and a present answers list
\* with no answer longer than 280.
C10_InsertOnlyIfBound ==
    /\ (/\ last.op = "PostCandidates"
        /\ last.next = 1
        /\ \/ ~last.input.decodeOk
           \/ last.input.Name = ""
           \/ last.input.Answers.isNil
           \/ \E i \in 1..Len(last.input.Answers.elems) :
                 Len(last.input.Answers.elems[i]) > 280) => last.storeOps = 0
    /\ \A b \in ValidBranches : \A i \in 1..Len(db[b]) :
          /\ db[b][i].name # ""
          /\ ~db[b][i].answers.isNil
          /\ \A k \in 1..Len(db[b][i].answers.elems) :
                Len(db[b][i].answers.elems[k]) <= 280

====
